---- MODULE Spec2Model ----
(***************************************************************************)
(* CANBusLogs_2_CSV: DBC catalog loader, multi-format log parser, signal   *)
(* decoder and CSV row assembler of src/CANBusLogs_2_CSV.py.               *)
(*                                                                         *)
(* Python values are modelled as follows.                                  *)
(*   bytes            a sequence of integers 0..255                        *)
(*   str (names)      a sequence of character codes, ordered as Python     *)
(*                    orders str (code point by code point)                *)
(*   int (unbounded)  inside the decoder: a sequence of bits, least        *)
(*                    significant first, all higher bits being zero        *)
(*   Optional[float]  a record [none, v]; factor and offset are integers,  *)
(*                    so raw*factor+offset is exact                        *)
(***************************************************************************)
EXTENDS Integers, Sequences, FiniteSets, TLC

VARIABLES
    \* one call of SignalDecoder.extract_signal_value
    dec_pc, dec_data, dec_signal, dec_result,
    \* DBCParser: the lines read so far, self.messages (a dict from can_id to
    \* a DBCMessage object, with its insertion order), the DBCMessage objects
    \* created so far, and parse_file's local current_message
    dbc_pc, dbc_read, dbc,
    \* MultiFormatLogParser.parse_file: the lines read so far and the parser
    \* (its attributes, the local variable form, the list messages, and the
    \* exception that ended the call, if any)
    log_pc, log_read, lp,
    \* convert_log_to_csv: SETUP, dbc_parser, can_messages, all_signals, the
    \* rows written to the output file, and the locals row, rrow and the
    \* position in can_messages
    conv_pc, setup, conv_dbc, can_messages, all_signals, csv_rows, row, rrow,
    frame_idx

decVars == <<dec_pc, dec_data, dec_signal, dec_result>>
dbcVars == <<dbc_pc, dbc_read, dbc>>
logVars == <<log_pc, log_read, lp>>
convVars == <<conv_pc, setup, conv_dbc, can_messages, all_signals, csv_rows,
              row, rrow, frame_idx>>

vars == <<decVars, dbcVars, logVars, convVars>>

(***************************************************************************)
(* Bounds of the model                                                     *)
(***************************************************************************)
MaxPayloadLen == 2
MaxStartBit == 17
MaxSize == 9
MaxDbcFiles == 2
MaxDbcLines == 3
MaxFrames == 3
MaxLogLines == 4

(***************************************************************************)
(* Helpers                                                                 *)
(***************************************************************************)
RECURSIVE Pow2(_)
Pow2(n) == IF n <= 0 THEN 1 ELSE 2 * Pow2(n - 1)

Min(a, b) == IF a <= b THEN a ELSE b

RECURSIVE BitsToInt(_)
BitsToInt(bits) ==
    IF Len(bits) = 0 THEN 0 ELSE Head(bits) + 2 * BitsToInt(Tail(bits))

(***************************************************************************)
(* SignalDecoder.extract_signal_value                                      *)
(***************************************************************************)
NoneValue == [none |-> TRUE, v |-> 0]
Some(x) == [none |-> FALSE, v |-> x]

\* data + b'\x00' * (8 - len(data)): a non-positive repeat count adds nothing
PadTo8(data) == data \o [i \in 1..(8 - Len(data)) |-> 0]

IntFromBytesBig(data) ==
    [i \in 1..(8 * Len(data)) |->
        (data[Len(data) - ((i - 1) \div 8)] \div Pow2((i - 1) % 8)) % 2]

\* int.from_bytes(data, byteorder='little'): bit 8*k+j of the integer is bit j
\* of byte k
IntFromBytesLittle(data) ==
    [i \in 1..(8 * Len(data)) |->
        (data[((i - 1) \div 8) + 1] \div Pow2((i - 1) % 8)) % 2]

EffectiveStartBit_Intel(signal) == signal.start_bit

\* lines 381-389: the bit position the extraction shifts by
EffectiveStartBit(signal) ==
    IF signal.is_little_endian
    THEN signal.start_bit
    ELSE LET byte_pos == signal.start_bit \div 8
             bit_pos == signal.start_bit % 8
         IN byte_pos * 8 + (7 - bit_pos) - signal.size + 1

\* x >> n for n >= 0
ShiftRight(bits, n) == SubSeq(bits, n + 1, Len(bits))

\* x & ((1 << size) - 1)
MaskLow(bits, size) == SubSeq(bits, 1, Min(size, Len(bits)))

\* raw_value & (1 << k), as a truth value
BitSet(bits, k) == k + 1 <= Len(bits) /\ bits[k + 1] = 1

SignAdjust_Unsigned(signal, raw_bits) == BitsToInt(raw_bits)

\* lines 396-397
SignAdjust(signal, raw_bits) ==
    IF signal.is_signed /\ BitSet(raw_bits, signal.size - 1)
    THEN BitsToInt(raw_bits) - Pow2(signal.size)
    ELSE BitsToInt(raw_bits)

\* The body of the try block, lines 376-402: [exc, v], exc when an exception
\* is raised in it (a negative shift count at line 393 or at line 396).
ExtractBody(data, signal) ==
    LET data_int == IntFromBytesLittle(PadTo8(data))
        start_bit == EffectiveStartBit(signal)
    IN  IF start_bit < 0
        THEN [exc |-> TRUE, v |-> 0]
        ELSE LET raw_bits == MaskLow(ShiftRight(data_int, start_bit), signal.size)
             IN  IF signal.is_signed /\ signal.size - 1 < 0
                 THEN [exc |-> TRUE, v |-> 0]
                 ELSE [exc |-> FALSE,
                       v |-> SignAdjust(signal, raw_bits) * signal.factor
                             + signal.offset]

extract_signal_value_NoExcept(data, signal) ==
    IF Len(data) = 0
    THEN [raised |-> FALSE, value |-> NoneValue]
    ELSE LET r == ExtractBody(data, signal)
         IN  IF r.exc
             THEN [raised |-> TRUE, value |-> NoneValue]
             ELSE [raised |-> FALSE, value |-> Some(r.v)]

extract_signal_value_NoEmptyCheck(data, signal) ==
    LET r == ExtractBody(data, signal)
    IN  IF r.exc
        THEN [raised |-> FALSE, value |-> NoneValue]
        ELSE [raised |-> FALSE, value |-> Some(r.v)]

\* lines 370-406: [raised, value]; raised is whether an exception leaves
\* the function
extract_signal_value(data, signal) ==
    IF Len(data) = 0
    THEN [raised |-> FALSE, value |-> NoneValue]
    ELSE LET r == ExtractBody(data, signal)
         IN  IF r.exc
             THEN [raised |-> FALSE, value |-> NoneValue]
             ELSE [raised |-> FALSE, value |-> Some(r.v)]


(***************************************************************************)
(* DBCParser                                                               *)
(*                                                                         *)
(* A line of a DBC file is modelled by what the two regular expressions of *)
(* parse_file capture from it:                                             *)
(*   [kind |-> "BO_", id, name, dlc]      matches message_pattern          *)
(*   [kind |-> "SG_", name, start_bit, size, endian, sign, factor, offset, *)
(*    range_ok]                           matches signal_pattern           *)
(*   [kind |-> "other"]                   matches neither                  *)
(* The declared identifier (\d+, an unbounded int) is held in two limbs:   *)
(* id = hi * 65536 + lo with 0 <= lo < 65536.  A numeric text (factor,     *)
(* offset) is [txt |-> "num", n], [txt |-> "empty"] or [txt |-> "bad"]     *)
(* (text such as "." that float() rejects); range_ok says that the texts   *)
(* of minimum and maximum are empty or numbers.  The minimum, maximum and  *)
(* unit of a signal are stored by the code and never read: left out.       *)
(***************************************************************************)
Num(n) == [txt |-> "num", n |-> n]
EmptyText == [txt |-> "empty", n |-> 0]
BadText == [txt |-> "bad", n |-> 0]

\* can_id > 2047
DeclaredAbove2047(id) == id.hi > 0 \/ id.lo > 2047

\* can_id >= 0x80000000
DeclaredHasBit31(id) == id.hi >= 32768

StoredCanId_Mask31(id) ==
    IF DeclaredHasBit31(id) THEN (id.hi % 32768) * 65536 + id.lo
    ELSE id.hi * 65536 + id.lo

\* lines 127-130: can_id & 0x1FFFFFFF when can_id >= 0x80000000
StoredCanId(id) ==
    IF DeclaredHasBit31(id) THEN (id.hi % 8192) * 65536 + id.lo
    ELSE id.hi * 65536 + id.lo

ExtendedFlag_AfterMask(id) == IF StoredCanId(id) > 2047 THEN 1 ELSE 0

\* line 128: extended = int(can_id > 2047), taken before the masking
ExtendedFlag(id) == IF DeclaredAbove2047(id) THEN 1 ELSE 0

\* lines 147-153: float(text) if text else default; a ValueError in any of
\* the four conversions gives all four defaults
SignalFactor(line) ==
    IF line.factor.txt = "bad" \/ line.offset.txt = "bad" \/ ~line.range_ok
    THEN 1
    ELSE IF line.factor.txt = "empty" THEN 1 ELSE line.factor.n

SignalOffset(line) ==
    IF line.factor.txt = "bad" \/ line.offset.txt = "bad" \/ ~line.range_ok
    THEN 0
    ELSE IF line.offset.txt = "empty" THEN 0 ELSE line.offset.n

\* lines 141-160: the DBCSignal of a signal line
MakeSignal(line) ==
    [name |-> line.name,
     start_bit |-> line.start_bit,
     size |-> line.size,
     is_little_endian |-> (line.endian = "1"),
     is_signed |-> (line.sign = "-"),
     factor |-> SignalFactor(line),
     offset |-> SignalOffset(line)]

\* DBCParser.__init__ (line 92) and the start of parse_file (line 119).
\* messages maps a can_id to the index in objs of the DBCMessage stored under
\* it; current is the index of current_message, 0 for None.
EmptyDbc == [messages |-> <<>>, order |-> <<>>, objs |-> <<>>, current |-> 0]

\* d[k] = v of a Python dict: a new key is appended to the iteration order
DictSet(f, k, v) == [x \in DOMAIN f \cup {k} |-> IF x = k THEN v ELSE f[x]]
DictOrder(f, order, k) == IF k \in DOMAIN f THEN order ELSE Append(order, k)

\* line 134 with the signals of the message the new one replaces kept
NewMessage_Merge(st, line) ==
    [can_id |-> StoredCanId(line.id),
     extended |-> ExtendedFlag(line.id),
     name |-> line.name,
     dlc |-> line.dlc,
     signals |-> IF StoredCanId(line.id) \in DOMAIN st.messages
                 THEN st.objs[st.messages[StoredCanId(line.id)]].signals
                 ELSE <<>>,
     sig_order |-> IF StoredCanId(line.id) \in DOMAIN st.messages
                   THEN st.objs[st.messages[StoredCanId(line.id)]].sig_order
                   ELSE <<>>,
     counter |-> 0,
     pulse |-> FALSE]

\* line 134: the DBCMessage a message line creates
NewMessage(st, line) ==
    [can_id |-> StoredCanId(line.id),
     extended |-> ExtendedFlag(line.id),
     name |-> line.name,
     dlc |-> line.dlc,
     signals |-> <<>>,
     sig_order |-> <<>>,
     counter |-> 0,
     pulse |-> FALSE]

\* lines 125-136
ParseMessageLine(st, line) ==
    LET msg == NewMessage(st, line)
        idx == Len(st.objs) + 1
    IN  [messages |-> DictSet(st.messages, msg.can_id, idx),
         order |-> DictOrder(st.messages, st.order, msg.can_id),
         objs |-> Append(st.objs, msg),
         current |-> idx]

\* lines 139-162
ParseSignalLine(st, line) ==
    IF st.current = 0
    THEN st
    ELSE LET cur == st.objs[st.current]
         IN  [st EXCEPT !.objs[st.current] =
                [cur EXCEPT
                    !.signals = DictSet(cur.signals, line.name, MakeSignal(line)),
                    !.sig_order = DictOrder(cur.signals, cur.sig_order, line.name)]]

\* one iteration of the loop at line 121
ParseDbcLine(st, line) ==
    IF line.kind = "BO_" THEN ParseMessageLine(st, line)
    ELSE IF line.kind = "SG_" THEN ParseSignalLine(st, line)
    ELSE st

\* line 119: a new file starts with current_message = None
OpenDbcFile(st) == [st EXCEPT !.current = 0]

\* dbc_parser.messages as the rest of the program sees it: can_id -> DBCMessage
Catalog(st) == [k \in DOMAIN st.messages |-> st.objs[st.messages[k]]]

(***************************************************************************)
(* Inputs of the DBC parser                                                *)
(***************************************************************************)
NameA == <<65>>
NameB == <<66>>
NameX == <<120>>
NameY == <<121>>

\* message lines declaring 1, 2047, 2048, 0x20000000, 0x80000001, 0xFFFFFFFF
DbcMessageLines ==
    {[kind |-> "BO_", id |-> [hi |-> 0, lo |-> 1], name |-> NameA, dlc |-> 1],
     [kind |-> "BO_", id |-> [hi |-> 0, lo |-> 2047], name |-> NameB, dlc |-> 2],
     [kind |-> "BO_", id |-> [hi |-> 0, lo |-> 2048], name |-> NameA, dlc |-> 1],
     [kind |-> "BO_", id |-> [hi |-> 8192, lo |-> 0], name |-> NameB, dlc |-> 2],
     [kind |-> "BO_", id |-> [hi |-> 32768, lo |-> 1], name |-> NameB, dlc |-> 2],
     [kind |-> "BO_", id |-> [hi |-> 65535, lo |-> 65535], name |-> NameA,
      dlc |-> 1]}

DbcSignalLines ==
    {[kind |-> "SG_", name |-> NameX, start_bit |-> 0, size |-> 8,
      endian |-> "1", sign |-> "+", factor |-> Num(2), offset |-> Num(1),
      range_ok |-> TRUE],
     [kind |-> "SG_", name |-> NameX, start_bit |-> 4, size |-> 4,
      endian |-> "1", sign |-> "-", factor |-> EmptyText, offset |-> Num(3),
      range_ok |-> TRUE],
     [kind |-> "SG_", name |-> NameY, start_bit |-> 15, size |-> 8,
      endian |-> "0", sign |-> "+", factor |-> Num(2), offset |-> BadText,
      range_ok |-> TRUE]}

DbcOtherLine == [kind |-> "other"]
DbcFileMark == [kind |-> "file"]

DbcIdle ==
    /\ dbc_pc = "idle"
    /\ dbc_read = <<>>
    /\ dbc = EmptyDbc

DbcInit ==
    /\ dbc_pc = "between_files"
    /\ dbc_read = <<>>
    /\ dbc = EmptyDbc

DbcFilesOpened == Cardinality({i \in DOMAIN dbc_read : dbc_read[i].kind = "file"})
DbcLinesRead == Len(dbc_read) - DbcFilesOpened

\* parse_files, line 96-97: the next file is opened
DbcOpenFile ==
    /\ dbc_pc = "between_files"
    /\ DbcFilesOpened < MaxDbcFiles
    /\ dbc' = OpenDbcFile(dbc)
    /\ dbc_read' = Append(dbc_read, DbcFileMark)
    /\ dbc_pc' = "in_file"
    /\ UNCHANGED <<decVars, logVars, convVars>>

\* a line that matches message_pattern is read
DbcMessageLine ==
    /\ dbc_pc = "in_file"
    /\ DbcLinesRead < MaxDbcLines
    /\ \E line \in DbcMessageLines :
        /\ dbc' = ParseDbcLine(dbc, line)
        /\ dbc_read' = Append(dbc_read, line)
    /\ UNCHANGED dbc_pc
    /\ UNCHANGED <<decVars, logVars, convVars>>

\* a line that matches signal_pattern is read
DbcSignalLine ==
    /\ dbc_pc = "in_file"
    /\ DbcLinesRead < MaxDbcLines
    /\ \E line \in DbcSignalLines :
        /\ dbc' = ParseDbcLine(dbc, line)
        /\ dbc_read' = Append(dbc_read, line)
    /\ UNCHANGED dbc_pc
    /\ UNCHANGED <<decVars, logVars, convVars>>

\* a line that matches neither pattern is read
DbcOtherLineRead ==
    /\ dbc_pc = "in_file"
    /\ DbcLinesRead < MaxDbcLines
    /\ dbc' = ParseDbcLine(dbc, DbcOtherLine)
    /\ dbc_read' = Append(dbc_read, DbcOtherLine)
    /\ UNCHANGED dbc_pc
    /\ UNCHANGED <<decVars, logVars, convVars>>

\* the end of the file is reached (line 164)
DbcEndOfFile ==
    /\ dbc_pc = "in_file"
    /\ dbc_pc' = "between_files"
    /\ UNCHANGED <<dbc, dbc_read>>
    /\ UNCHANGED <<decVars, logVars, convVars>>

\* parse_files returns
DbcReturn ==
    /\ dbc_pc = "between_files"
    /\ dbc_pc' = "done"
    /\ UNCHANGED <<dbc, dbc_read>>
    /\ UNCHANGED <<decVars, logVars, convVars>>

DbcNext ==
    \/ DbcOpenFile
    \/ DbcMessageLine
    \/ DbcSignalLine
    \/ DbcOtherLineRead
    \/ DbcEndOfFile
    \/ DbcReturn

(***************************************************************************)
(* convert_log_to_csv                                                      *)
(*                                                                         *)
(* A CANMessage is [timestamp, can_id, extended, dlc, data]; direction and *)
(* channel are never read by the conversion and are left out.  A row is a  *)
(* sequence: the timestamp, then one cell per entry of all_signals, a cell *)
(* being NoneValue (written as an empty field) or Some(v).                 *)
(***************************************************************************)
\* signal_name_mode (lines 37-39)
SIGNAL_NAME == [enum |-> "signal_name_mode", name |-> "SIGNAL_NAME", value |-> 0]
MSG_NAME___SIGNAL_NAME ==
    [enum |-> "signal_name_mode", name |-> "MSG_NAME___SIGNAL_NAME", value |-> 1]

\* member == n for a member of an Enum (not an IntEnum) and an int n:
\* Enum defines no comparison with an int, so Python answers False
EnumEqualsInt(member, n) == FALSE

\* SETUP.signal_name == signal_name_mode.SIGNAL_NAME.value (lines 450, 513)
IsSignalNameMode(cfg) == EnumEqualsInt(cfg.signal_name, SIGNAL_NAME.value)

\* the configurations main() can leave in SETUP (lines 41-45, 582-588)
Setups ==
    [signal_name : {SIGNAL_NAME, MSG_NAME___SIGNAL_NAME},
     msg_counter_signal : BOOLEAN,
     msg_pulser_signal : BOOLEAN]

\* str comparison: code point by code point, a proper prefix first
RECURSIVE StrLess(_, _)
StrLess(a, b) ==
    IF Len(a) = 0 THEN Len(b) > 0
    ELSE IF Len(b) = 0 THEN FALSE
    ELSE IF Head(a) < Head(b) THEN TRUE
    ELSE IF Head(a) > Head(b) THEN FALSE
    ELSE StrLess(Tail(a), Tail(b))

RECURSIVE SortedList_Descending(_)
SortedList_Descending(S) ==
    IF S = {} THEN <<>>
    ELSE LET m == CHOOSE x \in S : \A y \in S : x = y \/ StrLess(y, x)
         IN  <<m>> \o SortedList_Descending(S \ {m})

\* sorted(list(all_signals)), line 455
RECURSIVE SortedList(_)
SortedList(S) ==
    IF S = {} THEN <<>>
    ELSE LET m == CHOOSE x \in S : \A y \in S : x = y \/ StrLess(x, y)
         IN  <<m>> \o SortedList(S \ {m})

\* all_signals.index(name) + 1: the position of the cell in the row, counted
\* from 0 in Python and from 1 here
RowIndex(signals, name) ==
    1 + (CHOOSE i \in DOMAIN signals :
            signals[i] = name /\ \A j \in 1..(i - 1) : signals[j] # name)

TimeStr == <<116, 105, 109, 101>>
CounterSuffix == <<95, 67, 111, 117, 110, 116, 101, 114>>
PulserSuffix == <<95, 80, 117, 108, 115, 101, 114>>

\* lines 408-412
get_pulser_name(DBC_message_name) == <<95>> \o DBC_message_name \o PulserSuffix
get_counter_name(DBC_message_name) == <<95>> \o DBC_message_name \o CounterSuffix

\* lines 450-453 and 513-516
ColumnName(cfg, msg, signal_name) ==
    IF IsSignalNameMode(cfg) THEN signal_name
    ELSE msg.name \o <<46>> \o signal_name

\* lines 449-453
RECURSIVE AddSignalNames(_, _, _, _)
AddSignalNames(acc, cfg, msg, names) ==
    IF Len(names) = 0 THEN acc
    ELSE AddSignalNames(acc \cup {ColumnName(cfg, msg, Head(names))}, cfg, msg,
                        Tail(names))

\* lines 443-453: the set all_signals, messages visited in dict order
RECURSIVE CollectAllSignals(_, _, _, _)
CollectAllSignals(acc, cfg, st, order) ==
    IF Len(order) = 0 THEN acc
    ELSE LET msg == st.objs[st.messages[Head(order)]]
             a1 == IF cfg.msg_counter_signal
                   THEN acc \cup {get_counter_name(msg.name)} ELSE acc
             a2 == IF cfg.msg_pulser_signal
                   THEN a1 \cup {get_pulser_name(msg.name)} ELSE a1
         IN  CollectAllSignals(AddSignalNames(a2, cfg, msg, msg.sig_order),
                               cfg, st, Tail(order))

\* lines 443-455
AllSignals(cfg, st) == SortedList(CollectAllSignals({}, cfg, st, st.order))

\* lines 426-432: the keys str(can_id)|str(extended)|str(dlc); the decimal
\* texts of three ints joined by '|' are equal exactly when the ints are
dbc_parser_messages_ID(st) ==
    {<<st.objs[st.messages[k]].can_id, st.objs[st.messages[k]].extended,
       st.objs[st.messages[k]].dlc>> : k \in DOMAIN st.messages}

\* line 489
can_message_ID(frame) == <<frame.can_id, frame.extended, frame.dlc>>

IsDefinitionMatch_ByIdentifier(st, frame) == frame.can_id \in DOMAIN st.messages

\* line 491
IsDefinitionMatch(st, frame) ==
    can_message_ID(frame) \in dbc_parser_messages_ID(st)

StartRow_KeepTime(r, n, frame, signals) ==
    IF n = 0
    THEN <<frame.timestamp>> \o [i \in 1..Len(signals) |-> NoneValue]
    ELSE r

\* lines 472-475
StartRow(r, n, frame, signals) ==
    IF n = 0
    THEN <<frame.timestamp>> \o [i \in 1..Len(signals) |-> NoneValue]
    ELSE [r EXCEPT ![1] = frame.timestamp]

\* lines 478-485: [row, objs] after the pulse reset loop over the keys left
RECURSIVE ResetPulses(_, _, _, _)
ResetPulses(s, st, signals, keys) ==
    IF Len(keys) = 0 THEN s
    ELSE LET idx == st.messages[Head(keys)]
             msg == s.objs[idx]
             r1 == IF msg.pulse
                   THEN [s.row EXCEPT
                            ![RowIndex(signals, get_pulser_name(msg.name))] = Some(0)]
                   ELSE s.row
         IN  ResetPulses([row |-> r1,
                          objs |-> [s.objs EXCEPT ![idx].pulse = FALSE]],
                         st, signals, Tail(keys))

\* line 521
NextRrow_Stuck(n) == n

NextRrow(n) == n + 1

\* lines 512-523: [row, rrow] after decoding the signals left of the message
RECURSIVE DecodeSignals(_, _, _, _, _, _)
DecodeSignals(s, cfg, msg, names, frame, signals) ==
    IF Len(names) = 0 THEN s
    ELSE LET signal == msg.signals[Head(names)]
             signal_name_extended == ColumnName(cfg, msg, Head(names))
         IN  IF \E i \in DOMAIN signals : signals[i] = signal_name_extended
             THEN LET value == extract_signal_value(frame.data, signal).value
                      idx == RowIndex(signals, signal_name_extended)
                  IN  DecodeSignals(
                        [row |-> IF value.none THEN s.row
                                 ELSE [s.row EXCEPT ![idx] = value],
                         rrow |-> NextRrow(s.rrow)],
                        cfg, msg, Tail(names), frame, signals)
             ELSE DecodeSignals(s, cfg, msg, Tail(names), frame, signals)

\* lines 470-526: one iteration of the loop over can_messages;
\* [row, rrow, st], row being the row written
ProcessFrame(cfg, st, signals, r, n, frame) ==
    LET r0 == StartRow(r, n, frame, signals)
        p == IF cfg.msg_pulser_signal
             THEN ResetPulses([row |-> r0, objs |-> st.objs], st, signals, st.order)
             ELSE [row |-> r0, objs |-> st.objs]
    IN  IF IsDefinitionMatch(st, frame)
        THEN LET idx == st.messages[frame.can_id]
                 objs1 == [p.objs EXCEPT ![idx].counter = @ + 1,
                                         ![idx].pulse = TRUE]
                 dbc_message == objs1[idx]
                 r1 == IF cfg.msg_counter_signal
                       THEN [p.row EXCEPT
                               ![RowIndex(signals, get_counter_name(dbc_message.name))]
                                   = Some(dbc_message.counter)]
                       ELSE p.row
                 r2 == IF cfg.msg_pulser_signal
                       THEN [r1 EXCEPT
                               ![RowIndex(signals, get_pulser_name(dbc_message.name))]
                                   = Some(1)]
                       ELSE r1
                 d == DecodeSignals([row |-> r2, rrow |-> n], cfg, dbc_message,
                                    dbc_message.sig_order, frame, signals)
             IN  [row |-> d.row, rrow |-> d.rrow, st |-> [st EXCEPT !.objs = objs1]]
        ELSE [row |-> p.row, rrow |-> n, st |-> [st EXCEPT !.objs = p.objs]]

\* DBCParser.parse_file over the lines of one file, lines 119-162
RECURSIVE ParseDbcLines(_, _)
ParseDbcLines(st, lines) ==
    IF Len(lines) = 0 THEN st
    ELSE ParseDbcLines(ParseDbcLine(st, Head(lines)), Tail(lines))

\* DBCParser.parse_files, lines 94-97
RECURSIVE ParseDbcFiles(_, _)
ParseDbcFiles(st, files) ==
    IF Len(files) = 0 THEN st
    ELSE ParseDbcFiles(ParseDbcLines(OpenDbcFile(st), Head(files)), Tail(files))

(***************************************************************************)
(* Inputs of the conversion                                                *)
(***************************************************************************)
NameZ == <<122>>

BoA1 == [kind |-> "BO_", id |-> [hi |-> 0, lo |-> 1], name |-> NameA, dlc |-> 1]
BoB2 == [kind |-> "BO_", id |-> [hi |-> 0, lo |-> 2], name |-> NameB, dlc |-> 1]
BoA2048 ==
    [kind |-> "BO_", id |-> [hi |-> 0, lo |-> 2048], name |-> NameA, dlc |-> 1]

\* SG_ x : 0|8@1+ (2,1)
SgX == [kind |-> "SG_", name |-> NameX, start_bit |-> 0, size |-> 8,
        endian |-> "1", sign |-> "+", factor |-> Num(2), offset |-> Num(1),
        range_ok |-> TRUE]
\* SG_ x : 4|4@1- (,3)
SgXs == [kind |-> "SG_", name |-> NameX, start_bit |-> 4, size |-> 4,
         endian |-> "1", sign |-> "-", factor |-> EmptyText, offset |-> Num(3),
         range_ok |-> TRUE]
\* SG_ y : 15|8@0+ (1,0), effective start 1
SgY == [kind |-> "SG_", name |-> NameY, start_bit |-> 15, size |-> 8,
        endian |-> "0", sign |-> "+", factor |-> Num(1), offset |-> Num(0),
        range_ok |-> TRUE]
\* SG_ z : 7|8@0+ (1,0), effective start -7
SgZ == [kind |-> "SG_", name |-> NameZ, start_bit |-> 7, size |-> 8,
        endian |-> "0", sign |-> "+", factor |-> Num(1), offset |-> Num(0),
        range_ok |-> TRUE]

\* the DBC files given to a run, each a sequence of lines
ConvDbcInputs ==
    {<< <<DbcOtherLine>> >>,
     << <<BoA1, SgX, SgZ, BoB2>> >>,
     << <<BoB2, DbcOtherLine>>, <<BoA1, SgX, SgZ>> >>,
     << <<BoA1, SgX>>, <<BoA2048, SgXs, SgY>> >>}

Timestamp(origin, offset) == [origin |-> origin, offset |-> offset]

\* frames the log parser returns
ConvFrames ==
    {[timestamp |-> Timestamp(1, 10), can_id |-> 1, extended |-> 0, dlc |-> 1,
      data |-> <<5>>],
     [timestamp |-> Timestamp(1, 30), can_id |-> 1, extended |-> 0, dlc |-> 1,
      data |-> <<>>],
     [timestamp |-> Timestamp(1, 40), can_id |-> 1, extended |-> 1, dlc |-> 1,
      data |-> <<5>>],
     [timestamp |-> Timestamp(1, 50), can_id |-> 1, extended |-> 0, dlc |-> 2,
      data |-> <<5, 5>>],
     [timestamp |-> Timestamp(1, 60), can_id |-> 2, extended |-> 0, dlc |-> 1,
      data |-> <<128>>],
     [timestamp |-> Timestamp(1, 70), can_id |-> 2048, extended |-> 1, dlc |-> 1,
      data |-> <<128>>]}

ConvFrameSeqs == UNION {[1..n -> ConvFrames] : n \in 0..MaxFrames}

ConvInit ==
    /\ conv_pc = "start"
    /\ setup \in Setups
    /\ conv_dbc = EmptyDbc
    /\ can_messages = <<>>
    /\ all_signals = <<>>
    /\ csv_rows = <<>>
    /\ row = <<>>
    /\ rrow = 0
    /\ frame_idx = 0

AfterParseDbc_NoCheck(st) == "dbc_parsed"

\* lines 422-424: if not dbc_parser.messages: return
AfterParseDbc(st) ==
    IF DOMAIN st.messages = {} THEN "returned_no_messages" ELSE "dbc_parsed"

\* lines 438-440: if not can_messages: return
AfterParseLog(frames) ==
    IF Len(frames) = 0 THEN "returned_no_frames" ELSE "log_parsed"

\* lines 419-424: the DBC files are parsed; no message: return
ConvParseDbc ==
    /\ conv_pc = "start"
    /\ \E files \in ConvDbcInputs :
        /\ conv_dbc' = ParseDbcFiles(EmptyDbc, files)
        /\ conv_pc' = AfterParseDbc(conv_dbc')
    /\ UNCHANGED <<setup, can_messages, all_signals, csv_rows, row, rrow,
                   frame_idx>>
    /\ UNCHANGED <<decVars, dbcVars, logVars>>

\* lines 435-440: the log file is parsed; no frame: return
ConvParseLog ==
    /\ conv_pc = "dbc_parsed"
    /\ \E frames \in ConvFrameSeqs :
        /\ can_messages' = frames
        /\ conv_pc' = AfterParseLog(frames)
    /\ UNCHANGED <<setup, conv_dbc, all_signals, csv_rows, row, rrow, frame_idx>>
    /\ UNCHANGED <<decVars, dbcVars, logVars>>

\* lines 443-468: all_signals is built, the file is opened and the header
\* row written
ConvWriteHeader ==
    /\ conv_pc = "log_parsed"
    /\ all_signals' = AllSignals(setup, conv_dbc)
    /\ csv_rows' = << <<TimeStr>> \o all_signals' >>
    /\ rrow' = 0
    /\ conv_pc' = "rows"
    /\ UNCHANGED <<setup, conv_dbc, can_messages, row, frame_idx>>
    /\ UNCHANGED <<decVars, dbcVars, logVars>>

\* lines 470-526: the next frame is turned into a row and the row written
ConvProcessFrame ==
    /\ conv_pc = "rows"
    /\ frame_idx < Len(can_messages)
    /\ LET s == ProcessFrame(setup, conv_dbc, all_signals, row, rrow,
                             can_messages[frame_idx + 1])
       IN  /\ row' = s.row
           /\ rrow' = s.rrow
           /\ conv_dbc' = s.st
           /\ csv_rows' = Append(csv_rows, s.row)
    /\ frame_idx' = frame_idx + 1
    /\ UNCHANGED <<conv_pc, setup, can_messages, all_signals>>
    /\ UNCHANGED <<decVars, dbcVars, logVars>>

\* line 528: the loop is over, the file is closed
ConvFinish ==
    /\ conv_pc = "rows"
    /\ frame_idx = Len(can_messages)
    /\ conv_pc' = "done"
    /\ UNCHANGED <<setup, conv_dbc, can_messages, all_signals, csv_rows, row,
                   rrow, frame_idx>>
    /\ UNCHANGED <<decVars, dbcVars, logVars>>

ConvNext ==
    \/ ConvParseDbc
    \/ ConvParseLog
    \/ ConvWriteHeader
    \/ ConvProcessFrame
    \/ ConvFinish

(***************************************************************************)
(* MultiFormatLogParser.parse_file                                         *)
(*                                                                         *)
(* A line of the log is modelled by the patterns it matches and by what    *)
(* they capture from it.  No line matches two of the five patterns (the    *)
(* empty start pattern of CL2000 aside, which matches every line).         *)
(*   [kind |-> "bm_anchor", date, date_ok]    start_date_patterns[0]       *)
(*   [kind |-> "pcan_anchor", date, date_ok]  start_date_patterns[1]       *)
(*   [kind |-> "f1", time, can_id, ext, dlc, data]       log_patterns[0]   *)
(*   [kind |-> "f2", ts, id, dlc, data]                  log_patterns[1]   *)
(*   [kind |-> "f3", ts_ok, time, type, can_id, hex]     log_patterns[2]   *)
(*   [kind |-> "other"]                                                    *)
(* date_ok / ts_ok: strptime accepts the captured text.  ts and type are   *)
(* numeric texts as in the DBC lines.  id of an f2 line is [digits, value]:*)
(* the number of hex digits captured (0: the empty text) and their value.  *)
(* hex of an f3 line is the sequence of hex digits captured.  A datetime   *)
(* is a number > 0 (start_date = 0 is None); a timestamp is the pair of    *)
(* the origin used (0 for an absolute time) and the offset added to it.    *)
(* Formats are numbered as log_formats numbers them; -1 is None.           *)
(***************************************************************************)
BUSMASTER_3_2_2 == 0
PCANView_4_2_1_533 == 1
CL2000 == 2

\* re.match(self.start_date_patterns[form], line); the pattern of CL2000 is
\* the empty pattern
MatchesStartDate(form, line) ==
    IF form = BUSMASTER_3_2_2 THEN line.kind = "bm_anchor"
    ELSE IF form = PCANView_4_2_1_533 THEN line.kind = "pcan_anchor"
    ELSE TRUE

\* re.match(self.log_patterns[form], line)
MatchesLogPattern(form, line) ==
    IF form = BUSMASTER_3_2_2 THEN line.kind = "f1"
    ELSE IF form = PCANView_4_2_1_533 THEN line.kind = "f2"
    ELSE line.kind = "f3"

\* the start pattern at which the loop of lines 246-263 breaks
FirstStartDateMatch(line) ==
    IF MatchesStartDate(0, line) THEN 0
    ELSE IF MatchesStartDate(1, line) THEN 1
    ELSE 2

\* the log pattern at which the loop of lines 279-284 breaks, 3 when it runs
\* to its end
FirstLogPatternMatch(line) ==
    IF MatchesLogPattern(0, line) THEN 0
    ELSE IF MatchesLogPattern(1, line) THEN 1
    ELSE IF MatchesLogPattern(2, line) THEN 2
    ELSE 3

\* __init__ and _reset_parser_state (lines 214-224), messages = [] (line 228)
NewLogParser ==
    [log_format |-> -1, log_pattern |-> -1, start_date |-> 0,
     start_date_format |-> -1, form |-> -1, messages |-> <<>>,
     error |-> "none"]

Raise(p, exc) == [p EXCEPT !.error = exc]

\* bytes.fromhex of an even number of hex digits
RECURSIVE BytesFromHex(_)
BytesFromHex(hex) ==
    IF Len(hex) < 2 THEN <<>>
    ELSE <<16 * hex[1] + hex[2]>> \o BytesFromHex(SubSeq(hex, 3, Len(hex)))

Frame(timestamp, can_id, extended, dlc, data) ==
    [timestamp |-> timestamp, can_id |-> can_id, extended |-> extended,
     dlc |-> dlc, data |-> data]

\* lines 345-358: the DLC mismatch is only reported
AppendFrame(p, frame) == [p EXCEPT !.messages = Append(@, frame)]

\* lines 290-304 and 333-358
EmitBusMaster(p, line) ==
    IF p.start_date = 0
    THEN Raise(p, "TypeError")
    ELSE AppendFrame(p, Frame(Timestamp(p.start_date, line.time), line.can_id,
                              IF line.ext = "x" THEN 1 ELSE 0, line.dlc,
                              line.data))

\* lines 305-318 and 333-358
EmitPcanView(p, line) ==
    IF line.ts.txt # "num"
    THEN Raise(p, "ValueError")
    ELSE IF p.start_date = 0
    THEN Raise(p, "TypeError")
    ELSE IF line.id.digits = 0
    THEN Raise(p, "ValueError")
    ELSE AppendFrame(p, Frame(Timestamp(p.start_date, line.ts.n), line.id.value,
                              IF line.id.digits > 4 THEN 1 ELSE 0, line.dlc,
                              line.data))

\* lines 319-331 and 333-358
EmitCL2000(p, line) ==
    IF ~line.ts_ok
    THEN Raise(p, "ValueError")
    ELSE IF line.type.txt # "num"
    THEN Raise(p, "ValueError")
    ELSE IF Len(line.hex) % 2 = 1
    THEN Raise(p, "ValueError")
    ELSE AppendFrame(p, Frame(Timestamp(0, line.time), line.can_id, line.type.n,
                              Len(line.hex) \div 2, BytesFromHex(line.hex)))

\* lines 288-360
EmitOrWarn(p, line) ==
    IF MatchesLogPattern(p.log_pattern, line)
    THEN IF p.log_format = BUSMASTER_3_2_2 THEN EmitBusMaster(p, line)
         ELSE IF p.log_format = PCANView_4_2_1_533 THEN EmitPcanView(p, line)
         ELSE IF p.log_format = CL2000 THEN EmitCL2000(p, line)
         ELSE AppendFrame(p, Frame(Timestamp(0, 0), 0, 0, 0, <<>>))
    ELSE p

LockAndEmit_Relock(p, line) ==
    LET f == FirstLogPatternMatch(line)
    IN  IF f = 3
        THEN [p EXCEPT !.form = 2]
        ELSE EmitOrWarn([p EXCEPT !.log_format = f, !.log_pattern = f,
                                  !.form = f], line)

\* lines 278-360
LockAndEmit(p, line) ==
    IF p.log_pattern = -1
    THEN LET f == FirstLogPatternMatch(line)
         IN  IF f = 3
             THEN [p EXCEPT !.form = 2]
             ELSE EmitOrWarn([p EXCEPT !.log_format = f, !.log_pattern = f,
                                       !.form = f], line)
    ELSE EmitOrWarn(p, line)

\* lines 245-263: no origin yet.  The third start pattern matches every
\* line, so the loop always breaks and 'if not xmatch' never holds.
DetectOrigin(p, line) ==
    LET f == FirstStartDateMatch(line)
    IN  IF f = BUSMASTER_3_2_2
        THEN IF line.date_ok
             THEN LockAndEmit([p EXCEPT !.start_date_format = 0,
                                        !.start_date = line.date,
                                        !.form = 0], line)
             ELSE Raise([p EXCEPT !.start_date_format = 0, !.form = 0],
                        "ValueError")
        ELSE IF f = PCANView_4_2_1_533
        THEN IF line.date_ok
             THEN LockAndEmit([p EXCEPT !.start_date = line.date, !.form = 1],
                              line)
             ELSE Raise([p EXCEPT !.form = 1], "ValueError")
        ELSE LockAndEmit([p EXCEPT !.form = 2], line)

\* lines 264-276: an origin and start_date_format are set; form is what the
\* last loop left in it
RepeatedAnchor(p, line) ==
    IF MatchesStartDate(p.start_date_format, line)
    THEN IF p.form = BUSMASTER_3_2_2
         THEN IF line.date_ok THEN [p EXCEPT !.start_date = line.date]
              ELSE Raise(p, "ValueError")
         ELSE IF p.form = PCANView_4_2_1_533
         THEN Raise(p, "ValueError")
         ELSE p
    ELSE LockAndEmit(p, line)

\* lines 236-360: the loop body for one line
ParseLogLine(p, line) ==
    IF p.start_date = 0 THEN DetectOrigin(p, line)
    ELSE IF p.start_date_format # -1 THEN RepeatedAnchor(p, line)
    ELSE LockAndEmit(p, line)

(***************************************************************************)
(* Inputs of the log parser                                                *)
(***************************************************************************)
LogOther == [kind |-> "other"]

LogLines ==
    {[kind |-> "bm_anchor", date |-> 1, date_ok |-> TRUE],
     [kind |-> "bm_anchor", date |-> 2, date_ok |-> TRUE],
     [kind |-> "bm_anchor", date |-> 9, date_ok |-> FALSE],
     [kind |-> "pcan_anchor", date |-> 3, date_ok |-> TRUE],
     [kind |-> "f1", time |-> 10, can_id |-> 1, ext |-> "s", dlc |-> 1,
      data |-> <<5>>],
     [kind |-> "f1", time |-> 20, can_id |-> 2048, ext |-> "x", dlc |-> 2,
      data |-> <<128>>],
     [kind |-> "f2", ts |-> Num(30), id |-> [digits |-> 4, value |-> 2],
      dlc |-> 1, data |-> <<128>>],
     [kind |-> "f2", ts |-> BadText, id |-> [digits |-> 8, value |-> 2048],
      dlc |-> 1, data |-> <<>>],
     [kind |-> "f3", ts_ok |-> TRUE, time |-> 40, type |-> Num(0), can_id |-> 1,
      hex |-> <<0, 5>>],
     [kind |-> "f3", ts_ok |-> TRUE, time |-> 50, type |-> Num(1), can_id |-> 1,
      hex |-> <<0, 5, 1>>],
     [kind |-> "f3", ts_ok |-> TRUE, time |-> 60, type |-> BadText, can_id |-> 1,
      hex |-> <<>>],
     LogOther}

LogInit ==
    /\ log_pc = "reading"
    /\ log_read = <<>>
    /\ lp = NewLogParser

\* the next line of the file is read and processed; an exception leaves
\* parse_file
LogReadLine ==
    /\ log_pc = "reading"
    /\ Len(log_read) < MaxLogLines
    /\ \E line \in LogLines :
        /\ lp' = ParseLogLine(lp, line)
        /\ log_read' = Append(log_read, line)
        /\ log_pc' = IF lp'.error = "none" THEN "reading" ELSE "raised"
    /\ UNCHANGED <<decVars, dbcVars, convVars>>

\* the end of the file: lines 362-363, return messages
LogReturn ==
    /\ log_pc = "reading"
    /\ log_pc' = "returned"
    /\ UNCHANGED <<lp, log_read>>
    /\ UNCHANGED <<decVars, dbcVars, convVars>>

LogNext ==
    \/ LogReadLine
    \/ LogReturn

(***************************************************************************)
(* Inputs of the decoder                                                   *)
(***************************************************************************)
DecByteValues == {5, 128, 255}

FullPayload == <<1, 2, 3, 4, 5, 6, 7, 129>>

DecPayloads ==
    UNION {[1..n -> DecByteValues] : n \in 0..MaxPayloadLen} \cup {FullPayload}

DecStartBits == 0..MaxStartBit \cup {56, 63}

DecScalings == {<<1, 0>>, <<2, 1>>}

DecSignals ==
    {[name |-> <<120>>, start_bit |-> sb, size |-> sz, is_little_endian |-> le,
      is_signed |-> sg, factor |-> sc[1], offset |-> sc[2]] :
        sb \in DecStartBits, sz \in 0..MaxSize, le \in BOOLEAN,
        sg \in BOOLEAN, sc \in DecScalings}

DecIdleSignal ==
    [name |-> <<120>>, start_bit |-> 0, size |-> 1, is_little_endian |-> TRUE,
     is_signed |-> FALSE, factor |-> 1, offset |-> 0]

DecIdle ==
    /\ dec_pc = "idle"
    /\ dec_data = <<>>
    /\ dec_signal = DecIdleSignal
    /\ dec_result = [raised |-> FALSE, value |-> NoneValue]

DecInit ==
    /\ dec_pc = "ready"
    /\ dec_data = <<>>
    /\ dec_signal = DecIdleSignal
    /\ dec_result = [raised |-> FALSE, value |-> NoneValue]

\* One call of SignalDecoder.extract_signal_value
ExtractSignalValue ==
    /\ dec_pc = "ready"
    /\ \E data \in DecPayloads, signal \in DecSignals :
        /\ dec_data' = data
        /\ dec_signal' = signal
        /\ dec_result' = extract_signal_value(data, signal)
    /\ dec_pc' = "returned"
    /\ UNCHANGED <<dbcVars, logVars, convVars>>

DecNext == ExtractSignalValue

(***************************************************************************)
(* Specifications                                                          *)
(***************************************************************************)
LogIdle ==
    /\ log_pc = "idle"
    /\ log_read = <<>>
    /\ lp = NewLogParser

ConvIdle ==
    /\ conv_pc = "idle"
    /\ setup = <<>>
    /\ conv_dbc = EmptyDbc
    /\ can_messages = <<>>
    /\ all_signals = <<>>
    /\ csv_rows = <<>>
    /\ row = <<>>
    /\ rrow = 0
    /\ frame_idx = 0

InitDecode == DecInit /\ DbcIdle /\ LogIdle /\ ConvIdle
SpecDecode == InitDecode /\ [][DecNext]_vars

InitConv == ConvInit /\ DecIdle /\ DbcIdle /\ LogIdle
SpecConv == InitConv /\ [][ConvNext]_vars

InitLog == LogInit /\ DecIdle /\ DbcIdle /\ ConvIdle
SpecLog == InitLog /\ [][LogNext]_vars

InitDbc == DbcInit /\ DecIdle /\ LogIdle /\ ConvIdle
SpecDbc == InitDbc /\ [][DbcNext]_vars

(***************************************************************************)
(* Reference extraction, by arithmetic on the payload bytes.  The bits     *)
(* es .. es+size-1 of the padded little-endian word lie in the three bytes *)
(* starting at byte es div 8 (size + 7 <= 24 within the bounds).           *)
(***************************************************************************)
RefByte(data, k) == IF k + 1 <= Len(data) THEN data[k + 1] ELSE 0

RefWindow(data, es) ==
    RefByte(data, es \div 8)
    + 256 * RefByte(data, (es \div 8) + 1)
    + 65536 * RefByte(data, (es \div 8) + 2)

RefEffectiveStart(signal) ==
    IF signal.is_little_endian
    THEN signal.start_bit
    ELSE (signal.start_bit \div 8) * 8 + (7 - (signal.start_bit % 8))
         - signal.size + 1

RefUnsignedRaw(data, signal) ==
    (RefWindow(data, RefEffectiveStart(signal))
        \div Pow2(RefEffectiveStart(signal) % 8)) % Pow2(signal.size)

RefRaw(data, signal) ==
    LET u == RefUnsignedRaw(data, signal)
    IN  IF signal.is_signed /\ signal.size >= 1
           /\ (u \div Pow2(signal.size - 1)) % 2 = 1
        THEN u - Pow2(signal.size)
        ELSE u

RefValue(data, signal) == RefRaw(data, signal) * signal.factor + signal.offset

\* the reference is defined: non-empty payload of at most 8 bytes,
\* non-negative effective start, and a most significant bit to test
RefDefined(data, signal) ==
    /\ Len(data) >= 1
    /\ Len(data) <= 8
    /\ RefEffectiveStart(signal) >= 0
    /\ (signal.is_signed => signal.size >= 1)

\* C5, first part: the decoded value is the reference value
C5_ReferenceAgreement ==
    (dec_pc = "returned" /\ RefDefined(dec_data, dec_signal))
        => dec_result.value = Some(RefValue(dec_data, dec_signal))

\* C5, the ranges of the raw value (read off where factor 1, offset 0)
C5_RawRange ==
    (dec_pc = "returned" /\ RefDefined(dec_data, dec_signal)
     /\ dec_signal.factor = 1 /\ dec_signal.offset = 0)
        => /\ ~dec_result.value.none
           /\ IF dec_signal.is_signed
              THEN /\ dec_result.value.v >= 0 - Pow2(dec_signal.size - 1)
                   /\ dec_result.value.v <= Pow2(dec_signal.size - 1) - 1
              ELSE /\ dec_result.value.v >= 0
                   /\ dec_result.value.v <= Pow2(dec_signal.size) - 1

\* C5, the stated consequence: a big-endian signal with start_bit 8k+7 and
\* size 8 decodes as the little-endian signal with start_bit 8k and size 8
C5_MotorolaByte ==
    (dec_pc = "returned" /\ Len(dec_data) >= 1
     /\ ~dec_signal.is_little_endian
     /\ dec_signal.start_bit % 8 = 7 /\ dec_signal.size = 8)
        => dec_result.value =
            extract_signal_value(dec_data,
                [dec_signal EXCEPT !.is_little_endian = TRUE,
                                   !.start_bit = dec_signal.start_bit - 7]).value

\* C5: extract_signal_value agrees with the reference (padded little-endian
\* word, effective start, shift and mask, two's complement, scaling) wherever
\* the reference is defined, the raw value lies in the range of its width, and
\* a big-endian byte signal at start_bit 8k+7 decodes like the little-endian
\* byte signal at start_bit 8k.
C5_DecoderMatchesReference ==
    C5_ReferenceAgreement /\ C5_RawRange /\ C5_MotorolaByte

\* C10: extract_signal_value never raises; an empty payload, a negative
\* effective start and a signed signal of size 0 give an absent result; a
\* non-empty payload with non-negative effective start and size >= 1 never
\* gives an absent result.
C10_NeverRaises ==
    dec_pc = "returned" =>
        /\ ~dec_result.raised
        /\ Len(dec_data) = 0 => dec_result.value = NoneValue
        /\ RefEffectiveStart(dec_signal) < 0 => dec_result.value = NoneValue
        /\ (dec_signal.is_signed /\ dec_signal.size = 0)
            => dec_result.value = NoneValue
        /\ (Len(dec_data) >= 1 /\ RefEffectiveStart(dec_signal) >= 0
            /\ dec_signal.size >= 1) => ~dec_result.value.none

\* a big-endian signal with negative effective start was decoded over a
\* non-empty payload and gave an absent result
C10_Witness ==
    /\ dec_pc = "returned"
    /\ Len(dec_data) >= 1
    /\ ~dec_signal.is_little_endian
    /\ RefEffectiveStart(dec_signal) < 0
    /\ dec_result = [raised |-> FALSE, value |-> NoneValue]

(***************************************************************************)
(* The catalog the lines read so far call for                              *)
(***************************************************************************)
RefExtended(id) == IF id.hi = 0 /\ id.lo <= 2047 THEN 0 ELSE 1

RefStored(id) ==
    IF id.hi < 32768
    THEN id.hi * 65536 + id.lo
    ELSE (id.hi - 8192 * (id.hi \div 8192)) * 65536 + id.lo

MessageLineIdx == {i \in DOMAIN dbc_read : dbc_read[i].kind = "BO_"}

SetMax(S) == CHOOSE x \in S : \A y \in S : y <= x

\* the latest message line whose stored identifier is k
LatestDefinition(k) ==
    SetMax({i \in MessageLineIdx : RefStored(dbc_read[i].id) = k})

\* the signal lines that follow message line i with no other message line
\* and no end of file in between
SignalLinesOf(i) ==
    {j \in DOMAIN dbc_read :
        /\ j > i
        /\ dbc_read[j].kind = "SG_"
        /\ \A m \in (i + 1)..(j - 1) : dbc_read[m].kind \notin {"BO_", "file"}}

\* C7: last-writer-wins.  The catalog keys are the stored identifiers of the
\* message lines read; under each key is the message of the latest message
\* line with that stored identifier, with exactly the signals of the signal
\* lines that followed that line (the latest line of each signal name), and
\* the key is the can_id of the message stored under it.
C7_LastWriterWins ==
    /\ DOMAIN Catalog(dbc) = {RefStored(dbc_read[i].id) : i \in MessageLineIdx}
    /\ \A k \in DOMAIN Catalog(dbc) :
        LET msg == Catalog(dbc)[k]
            def == LatestDefinition(k)
            own == SignalLinesOf(def)
        IN  /\ msg.can_id = k
            /\ msg.name = dbc_read[def].name
            /\ msg.dlc = dbc_read[def].dlc
            /\ msg.extended = RefExtended(dbc_read[def].id)
            /\ DOMAIN msg.signals = {dbc_read[j].name : j \in own}
            /\ \A n \in DOMAIN msg.signals :
                LET j == SetMax({x \in own : dbc_read[x].name = n})
                IN  /\ msg.signals[n].name = n
                    /\ msg.signals[n].start_bit = dbc_read[j].start_bit
                    /\ msg.signals[n].size = dbc_read[j].size

\* an identifier was defined, given a signal, and defined again: the signal
\* of the earlier definition is not in the catalog
C7_Witness ==
    \E i, j \in MessageLineIdx :
        /\ i < j
        /\ RefStored(dbc_read[i].id) = RefStored(dbc_read[j].id)
        /\ j = LatestDefinition(RefStored(dbc_read[j].id))
        /\ SignalLinesOf(i) # {}
        /\ \A x \in SignalLinesOf(i) :
            dbc_read[x].name \notin
                DOMAIN Catalog(dbc)[RefStored(dbc_read[j].id)].signals

MessageLinesRead == SelectSeq(dbc_read, LAMBDA l : l.kind = "BO_")

\* C8: every message is stored with extended = 1 exactly when its declared
\* identifier exceeds 2047 (the declared value, before masking), with the low
\* 29 bits of a declared identifier >= 0x80000000 and with a smaller declared
\* identifier unchanged; 0x80000001 is stored as 1, extended.
C8_IdentifierClassification ==
    /\ Len(dbc.objs) = Len(MessageLinesRead)
    /\ \A i \in DOMAIN dbc.objs :
        LET id == MessageLinesRead[i].id
            msg == dbc.objs[i]
        IN  /\ msg.extended = RefExtended(id)
            /\ msg.can_id = RefStored(id)
            /\ id = [hi |-> 32768, lo |-> 1] => (msg.can_id = 1 /\ msg.extended = 1)
            /\ id.hi < 32768 => msg.can_id = id.hi * 65536 + id.lo
            /\ msg.can_id \in DOMAIN dbc.messages
    /\ dbc.current # 0 =>
        dbc.messages[dbc.objs[dbc.current].can_id] = dbc.current

\* 0x80000001 was declared and the catalog holds it under 1, extended
C8_Witness ==
    /\ \E i \in DOMAIN dbc_read :
        /\ dbc_read[i].kind = "BO_"
        /\ dbc_read[i].id = [hi |-> 32768, lo |-> 1]
        /\ i = LatestDefinition(1)
    /\ 1 \in DOMAIN Catalog(dbc)
    /\ Catalog(dbc)[1].extended = 1

(***************************************************************************)
(* The rows the conversion is to write                                     *)
(***************************************************************************)
ConvCatalog == Catalog(conv_dbc)
Header == csv_rows[1]
HeaderWritten == conv_pc \in {"rows", "done"}

\* the data row written for frame i
DataRow(i) == csv_rows[i + 1]

\* frame f is a definition match for message m
RefMatches(f, m) ==
    f.can_id = m.can_id /\ f.extended = m.extended /\ f.dlc = m.dlc
RefIsMatch(f) == \E k \in DOMAIN ConvCatalog : RefMatches(f, ConvCatalog[k])
RefMatched(f) ==
    ConvCatalog[CHOOSE k \in DOMAIN ConvCatalog : RefMatches(f, ConvCatalog[k])]

RefQualified(m, n) == m.name \o <<46>> \o n

\* the column name the naming mode asks for
RefColumn(cfg, m, n) ==
    IF cfg.signal_name = SIGNAL_NAME THEN n ELSE RefQualified(m, n)

RefCounterColumns == {<<95>> \o ConvCatalog[k].name \o CounterSuffix :
                        k \in DOMAIN ConvCatalog}
RefPulserColumns == {<<95>> \o ConvCatalog[k].name \o PulserSuffix :
                        k \in DOMAIN ConvCatalog}

\* the positions of the signal-derived cells: every column but the time and
\* the counter and pulser columns
SignalCells ==
    {c \in 2..Len(Header) : Header[c] \notin RefCounterColumns \cup RefPulserColumns}

\* column name c is the column of a signal of message m, in either mode
BelongsTo(c, m) ==
    \E n \in DOMAIN m.signals : c = n \/ c = RefQualified(m, n)

\* C1: the signal columns of the header are the bare signal names in bare
\* mode and <message-name>.<signal-name> in qualified mode, and a decoded
\* value is written to the column of that name.
C1_ColumnNaming ==
    HeaderWritten =>
        /\ {Header[c] : c \in SignalCells} =
            UNION {{RefColumn(setup, ConvCatalog[k], n) :
                        n \in DOMAIN ConvCatalog[k].signals} :
                    k \in DOMAIN ConvCatalog}
        /\ \A i \in 1..frame_idx :
            LET f == can_messages[i]
            IN  RefIsMatch(f) =>
                  \A n \in DOMAIN RefMatched(f).signals :
                    LET v == extract_signal_value(f.data, RefMatched(f).signals[n]).value
                    IN  ~v.none =>
                          \E c \in 2..Len(Header) :
                            /\ Header[c] = RefColumn(setup, RefMatched(f), n)
                            /\ DataRow(i)[c] = v

\* C2: one data row per frame, in the order of the frames, the first cell
\* of the i-th row being the timestamp of the i-th frame; when the run is
\* over every frame has its row.
C2_OneRowPerFrame ==
    HeaderWritten =>
        /\ Len(csv_rows) = 1 + frame_idx
        /\ \A i \in 1..frame_idx : DataRow(i)[1] = can_messages[i].timestamp
        /\ conv_pc = "done" => frame_idx = Len(can_messages)

\* three frames, not all definition matches, and their three rows
C2_Witness ==
    /\ conv_pc = "done"
    /\ Len(can_messages) >= 3
    /\ Len(csv_rows) = 1 + Len(can_messages)
    /\ RefIsMatch(can_messages[1])
    /\ ~RefIsMatch(can_messages[2])
    /\ can_messages[1].timestamp # can_messages[2].timestamp
    /\ DataRow(2)[1] = can_messages[2].timestamp

\* frame i decodes the signal cell c
RefDecodes(i, c) ==
    /\ RefIsMatch(can_messages[i])
    /\ \E n \in DOMAIN RefMatched(can_messages[i]).signals :
        /\ Header[c] \in {n, RefQualified(RefMatched(can_messages[i]), n)}
        /\ ~extract_signal_value(can_messages[i].data,
                                 RefMatched(can_messages[i]).signals[n]).value.none

\* C3: in the first row a signal cell the first frame did not decode is
\* empty; in a later row a signal cell whose column does not belong to the
\* message its frame matches (any signal cell when the frame matches none)
\* is the cell of the previous row.
C3_CarryForward ==
    HeaderWritten =>
        \A i \in 1..frame_idx : \A c \in SignalCells :
            /\ (i = 1 /\ ~RefDecodes(1, c)) => DataRow(1)[c] = NoneValue
            /\ (i > 1 /\ (~RefIsMatch(can_messages[i])
                          \/ ~BelongsTo(Header[c], RefMatched(can_messages[i]))))
                => DataRow(i)[c] = DataRow(i - 1)[c]

\* a frame that matches no message follows a row with a decoded signal:
\* the signal cell is carried into its row and the time cell changes
C3_Witness ==
    /\ HeaderWritten
    /\ \E i \in 2..frame_idx : \E c \in SignalCells :
        /\ ~RefIsMatch(can_messages[i])
        /\ ~DataRow(i - 1)[c].none
        /\ DataRow(i)[c] = DataRow(i - 1)[c]
        /\ DataRow(i)[1] # DataRow(i - 1)[1]

\* the frame's identifier is in the catalog, its extended flag or its DLC is
\* not that of the catalog message
RefNearMiss(f) ==
    /\ f.can_id \in DOMAIN ConvCatalog
    /\ \/ f.extended # ConvCatalog[f.can_id].extended
       \/ f.dlc # ConvCatalog[f.can_id].dlc

SignalCellOf(r, c) == IF c \in DOMAIN r THEN r[c] ELSE NoneValue

\* C4: processing a frame whose identifier is in the catalog but whose
\* extended flag or DLC differs increments no counter, sets no pulse (no
\* pulse flag rises, no pulser cell becomes 1) and writes no signal cell.
C4_MatchNeedsAllThree ==
    [][(conv_pc = "rows" /\ frame_idx < Len(can_messages)
        /\ RefNearMiss(can_messages[frame_idx + 1]))
        => /\ \A i \in DOMAIN conv_dbc.objs :
                /\ conv_dbc'.objs[i].counter = conv_dbc.objs[i].counter
                /\ conv_dbc'.objs[i].pulse => conv_dbc.objs[i].pulse
           /\ \A c \in 2..Len(Header) :
                /\ c \in SignalCells => row'[c] = SignalCellOf(row, c)
                /\ Header[c] \in RefPulserColumns => row'[c] # Some(1)
                /\ Header[c] \in RefCounterColumns
                    => row'[c] \in {NoneValue, SignalCellOf(row, c)}]_vars

\* after a definition match, a frame with the same identifier and another
\* extended flag or DLC has been given its row
C4_Witness ==
    /\ HeaderWritten
    /\ frame_idx >= 2
    /\ RefIsMatch(can_messages[frame_idx - 1])
    /\ RefNearMiss(can_messages[frame_idx])
    /\ can_messages[frame_idx].can_id = can_messages[frame_idx - 1].can_id
    /\ ConvCatalog[can_messages[frame_idx].can_id].counter = 1

\* C6: the header is 'time' followed by the strictly ascending list of the
\* column names of the whole catalog: a counter (pulser) column per message
\* exactly when the counter (pulser) feature is on, and the signal columns;
\* it is a function of the catalog contents and the configuration, stays as
\* written, and every row has as many cells as the header.
C6_HeaderFixed ==
    HeaderWritten =>
        /\ Header = <<TimeStr>> \o all_signals
        /\ \A i \in 1..(Len(all_signals) - 1) :
            StrLess(all_signals[i], all_signals[i + 1])
        /\ {all_signals[i] : i \in DOMAIN all_signals} =
            (IF setup.msg_counter_signal THEN RefCounterColumns ELSE {})
            \cup (IF setup.msg_pulser_signal THEN RefPulserColumns ELSE {})
            \cup {Header[c] : c \in SignalCells}
        /\ \A c \in SignalCells :
            \E k \in DOMAIN ConvCatalog : BelongsTo(Header[c], ConvCatalog[k])
        /\ \A k \in DOMAIN ConvCatalog : \A n \in DOMAIN ConvCatalog[k].signals :
            \E c \in SignalCells :
                Header[c] \in {n, RefQualified(ConvCatalog[k], n)}
        /\ \A i \in 1..Len(csv_rows) : Len(csv_rows[i]) = Len(Header)

\* counter columns and signal columns in one header, with rows under it
C6_Witness ==
    /\ HeaderWritten
    /\ setup.msg_counter_signal
    /\ ~setup.msg_pulser_signal
    /\ Len(Header) >= 5
    /\ SignalCells # {}
    /\ Len(csv_rows) >= 3

\* what the catalog defines: every message without its running counter and
\* pulse flag
RefDefinitions(st) ==
    [k \in DOMAIN st.messages |->
        LET m == st.objs[st.messages[k]]
        IN  [name |-> m.name, can_id |-> m.can_id, extended |-> m.extended,
             dlc |-> m.dlc, signals |-> m.signals]]

\* the log file is handed to the log parser in this step
LogFileRead ==
    conv_pc' # conv_pc /\ conv_pc' \in {"log_parsed", "returned_no_frames"}

\* something is written to the output file in this step
OutputWritten == csv_rows' # csv_rows

\* C11: with an empty catalog the conversion returns without reading the log
\* and without writing output; with no frame it returns without writing
\* output; the header is written only once the catalog is built and the
\* whole log parsed, neither of which changes afterwards.
C11_FatalBeforeOutput ==
    /\ [](conv_pc = "returned_no_messages" =>
            /\ DOMAIN conv_dbc.messages = {}
            /\ can_messages = <<>>
            /\ csv_rows = <<>>)
    /\ [](conv_pc = "returned_no_frames" =>
            can_messages = <<>> /\ csv_rows = <<>>)
    /\ [][/\ LogFileRead => DOMAIN conv_dbc.messages # {}
          /\ OutputWritten =>
                /\ DOMAIN conv_dbc.messages # {}
                /\ can_messages # <<>>
                /\ can_messages' = can_messages
                /\ RefDefinitions(conv_dbc') = RefDefinitions(conv_dbc)
          /\ conv_pc \in {"returned_no_messages", "returned_no_frames"} =>
                UNCHANGED convVars]_vars

\* a run that stopped for want of frames, the catalog loaded, nothing written
C11_Witness ==
    /\ conv_pc = "returned_no_frames"
    /\ DOMAIN conv_dbc.messages # {}
    /\ csv_rows = <<>>


\* the message of key k is the only one of the catalog with its name, so
\* that its counter and pulser columns are its own
RefUniqueName(k) ==
    \A k2 \in DOMAIN ConvCatalog :
        ConvCatalog[k2].name = ConvCatalog[k].name => k2 = k

\* the number of the first i frames that are definition matches for m
RefCount(m, i) ==
    Cardinality({j \in 1..i : RefMatches(can_messages[j], m)})

\* the cell of the row of frame i in the column called name
RefCell(i, name) ==
    DataRow(i)[CHOOSE c \in 2..Len(Header) : Header[c] = name]

\* C12: with the counter enabled, from the row of the first frame that is a
\* definition match for M on, the cell _<M.name>_Counter of every row is
\* the number of frames so far that were definition matches for M, also
\* when M has no signals.  (Refuted: while no signal has been decoded the
\* row is started afresh for every frame and the counter cells are lost.)
C12_CounterCell ==
    (HeaderWritten /\ setup.msg_counter_signal) =>
        \A k \in DOMAIN ConvCatalog :
            RefUniqueName(k) =>
                \A i \in 1..frame_idx :
                    RefCount(ConvCatalog[k], i) > 0 =>
                        RefCell(i, <<95>> \o ConvCatalog[k].name \o CounterSuffix)
                            = Some(RefCount(ConvCatalog[k], i))

\* C13: with the pulse enabled, in every row the cell _<M.name>_Pulser of
\* every message M is 1 if the frame of the row is a definition match for M
\* and 0 otherwise; no pulse cell is empty.  (Refuted: the cell of a message
\* is set to 0 only if the message matched the frame before.)
C13_PulseCell ==
    (HeaderWritten /\ setup.msg_pulser_signal) =>
        \A k \in DOMAIN ConvCatalog :
            RefUniqueName(k) =>
                \A i \in 1..frame_idx :
                    RefCell(i, <<95>> \o ConvCatalog[k].name \o PulserSuffix)
                        = Some(IF RefMatches(can_messages[i], ConvCatalog[k])
                               THEN 1 ELSE 0)

\* C14: when a frame is a definition match for M and a signal of M decodes
\* to an absent result, the cell of that signal is empty in the row of the
\* frame, also when an earlier row held a value there.  (Refuted: the cell
\* keeps the value of the row before.)
C14_AbsentLeavesEmpty ==
    HeaderWritten =>
        \A i \in 1..frame_idx :
            LET f == can_messages[i]
            IN  RefIsMatch(f) =>
                  \A n \in DOMAIN RefMatched(f).signals :
                    extract_signal_value(f.data, RefMatched(f).signals[n]).value.none
                      => \A c \in 2..Len(Header) :
                            Header[c] \in {n, RefQualified(RefMatched(f), n)}
                                => DataRow(i)[c] = NoneValue

(***************************************************************************)
(* Log parser claims (SpecLog)                                             *)
(***************************************************************************)
LogCallEnded == log_pc \in {"returned", "raised"}

RefDataKinds == {"f1", "f2", "f3"}
RefAnchorKinds == {"bm_anchor", "pcan_anchor"}

RefLinesOfKinds(kinds) == {i \in DOMAIN log_read : log_read[i].kind \in kinds}

SetMin(S) == CHOOSE x \in S : \A y \in S : x <= y

\* the grammar the file locks: that of its first data line
RefLockedKind == log_read[SetMin(RefLinesOfKinds(RefDataKinds))].kind

\* every start-date line of the file carries a date strptime accepts
RefAnchorsValid ==
    \A i \in RefLinesOfKinds(RefAnchorKinds) : log_read[i].date_ok

\* the file has data lines, its recording origin is resolved before the
\* first of them (a CL2000 line carries its own date), and every start-date
\* line carries a valid date
RefResolved ==
    /\ RefLinesOfKinds(RefDataKinds) # {}
    /\ \/ RefLockedKind = "f3"
       \/ \E i \in RefLinesOfKinds(RefAnchorKinds) :
              i < SetMin(RefLinesOfKinds(RefDataKinds))
    /\ RefAnchorsValid

\* the lines that match the locked grammar, in file order
RefMatchingLines == SelectSeq(log_read, LAMBDA l : l.kind = RefLockedKind)

\* the frame a matching line stands for: declared DLC, actual payload
RefFrameOf(l, frame) ==
    IF l.kind = "f1"
    THEN /\ frame.timestamp.offset = l.time
         /\ frame.can_id = l.can_id
         /\ frame.extended = (IF l.ext = "x" THEN 1 ELSE 0)
         /\ frame.dlc = l.dlc
         /\ frame.data = l.data
    ELSE IF l.kind = "f2"
    THEN /\ frame.timestamp.offset = l.ts.n
         /\ frame.can_id = l.id.value
         /\ frame.extended = (IF l.id.digits > 4 THEN 1 ELSE 0)
         /\ frame.dlc = l.dlc
         /\ frame.data = l.data
    ELSE /\ frame.timestamp.offset = l.time
         /\ frame.can_id = l.can_id
         /\ frame.extended = l.type.n
         /\ frame.dlc = Len(l.hex) \div 2
         /\ Len(frame.data) = Len(l.hex) \div 2

\* C9: once the origin and the line grammar are resolved, a call of
\* parse_file returns exactly one frame for each line that matches the locked
\* grammar, in file order; a frame whose payload length differs from its
\* declared DLC is reported and still returned.  (Refuted: a conversion that
\* raises on a matching line ends the call without a result.)
C9_FramePerMatchingLine ==
    (LogCallEnded /\ RefResolved) =>
        /\ log_pc = "returned"
        /\ Len(lp.messages) = Len(RefMatchingLines)
        /\ \A k \in 1..Len(lp.messages) :
               RefFrameOf(RefMatchingLines[k], lp.messages[k])

\* the origin the first start-date line of the file gives
RefFirstOrigin ==
    IF RefLinesOfKinds(RefAnchorKinds) = {} THEN 0
    ELSE log_read[SetMin(RefLinesOfKinds(RefAnchorKinds))].date

\* C15: the origin is resolved once per file and held fixed: no line changes
\* it once it is set, and every frame whose timestamp is built on an origin
\* is built on the first one.  (Refuted: a second BusMaster start-date line
\* read after the grammar is locked replaces the origin.)
C15_OriginFixed ==
    /\ [][lp.start_date # 0 => lp'.start_date = lp.start_date]_vars
    /\ [](\A k \in DOMAIN lp.messages :
            lp.messages[k].timestamp.origin \in {0, RefFirstOrigin})

\* C16: no line makes parse_file stop: every line is turned into a frame or
\* skipped, and at the end of the file the frames are returned; a format 1
\* or 2 data line before any origin, and a format 3 line with an odd number
\* of hex digits or a non-numeric type, are skipped.  (Refuted, already on
\* files whose start-date lines are all valid: these lines raise an
\* exception that leaves parse_file.)
C16_NoLineAborts ==
    RefAnchorsValid =>
        /\ log_pc # "raised"
        /\ lp.error = "none"
        /\ Len(lp.messages) <= Len(log_read)

RefKindOfFormat(f) ==
    IF f = BUSMASTER_3_2_2 THEN "f1"
    ELSE IF f = PCANView_4_2_1_533 THEN "f2"
    ELSE IF f = CL2000 THEN "f3"
    ELSE "none"

\* the line read in this step
RefLineRead == log_read'[Len(log_read')]

\* C17: the data-line format is that of the first line of the file matching
\* one of the three data-line grammars and never changes afterwards; a later
\* line of another grammar gives no frame and is skipped, so that every
\* frame comes from a line of the locked grammar.
C17_GrammarLock ==
    /\ [](IF RefLinesOfKinds(RefDataKinds) = {}
          THEN lp.log_format = -1 /\ lp.log_pattern = -1
          ELSE RefKindOfFormat(lp.log_format) = RefLockedKind
               /\ lp.log_pattern = lp.log_format)
    /\ [](lp.log_format = -1 => lp.messages = <<>>)
    /\ [][/\ lp.log_format # -1 =>
                lp'.log_format = lp.log_format /\ lp'.log_pattern = lp.log_pattern
          /\ (log_read' # log_read /\ lp.log_format # -1
                /\ RefLineRead.kind \in RefDataKinds
                /\ RefLineRead.kind # RefKindOfFormat(lp.log_format)) =>
                /\ lp'.messages = lp.messages
                /\ lp'.error = "none"
          /\ lp'.messages # lp.messages =>
                /\ log_read' # log_read
                /\ RefLineRead.kind = RefKindOfFormat(lp'.log_format)
                /\ Len(lp'.messages) = Len(lp.messages) + 1
                /\ SubSeq(lp'.messages, 1, Len(lp.messages)) = lp.messages]_vars

\* a file locked on format 1 by its first data line, a later line of
\* format 3 skipped, and frames from format 1 lines before and after it
C17_Witness ==
    /\ log_pc = "returned"
    /\ lp.log_format = BUSMASTER_3_2_2
    /\ Len(log_read) = 4
    /\ log_read[2].kind = "f1"
    /\ log_read[3].kind = "f3"
    /\ log_read[4].kind = "f1"
    /\ Len(lp.messages) = 2

====
